---- MODULE Spec2Model ----
(***************************************************************************)
(* online_microstates.py: batch_run = load_config; check_config; run.      *)
(* run() waits on the shared tri-state flag `state`, resolves and connects *)
(* the LSL stream, then pulls windows in a paced loop until the flag       *)
(* leaves 1 or GLOBAL_TIME seconds have elapsed.                           *)
(*                                                                         *)
(* run() gets its flag from the launching context: batch_run passes none   *)
(* (the default flag holds 1 and nobody writes it), an operator interface  *)
(* passes its own flag and writes it at any time.  Both are covered: the   *)
(* flag starts at any value and gate_write may or may not occur.           *)
(*                                                                         *)
(* The local last_ts of run() is read at line 132 and only assigned at     *)
(* line 144, so the first continuity check raises UnboundLocalError; the   *)
(* rest of the loop body is modelled as written but is not reachable.      *)
(*                                                                         *)
(* Encoding of Python values:                                              *)
(*   an attribute / local that does not exist  -> <<>>   (Missing/Unbound) *)
(*   an attribute / local holding value v      -> <<v>>                    *)
(*   Python None                               -> "None"                   *)
(* Time is a discrete wall clock `now` (one unit = one second).            *)
(***************************************************************************)
EXTENDS Integers, Sequences, FiniteSets, TLC

----------------------------------------------------------------------------
(* Bounds of the model                                                     *)
MaxTime == 3          \* the wall clock runs over 0..MaxTime
MaxGlobalTime == 2    \* configured GLOBAL_TIME ranges over 0..MaxGlobalTime
MaxTimerSleep == 2    \* configured TIMER_SLEEP ranges over 1..MaxTimerSleep
MaxTs == 2            \* timestamps of a window range over 0..MaxTs
MaxLen == 2           \* a window holds 1..MaxLen timestamps

----------------------------------------------------------------------------
(* Program constants                                                       *)
Stop == 0                  \* state.value: 0 stop
Run == 1                   \* state.value: 1 start
Wait == 2                  \* state.value: 2 wait
DefaultGlobalTime == 60    \* optional_vars['GLOBAL_TIME'] = 1.0 * 60
DefaultNJobs == 1          \* optional_vars['NJOBS']
AbortArg == -1             \* sys.exit(-1)
StaleBackoff == 1          \* time.sleep(1)
UncaughtStatus == 1        \* exit status of an uncaught exception
NormalStatus == 0          \* exit status when batch_run returns

Missing == <<>>
Unbound == <<>>
Some(v) == <<v>>
Val(o) == o[1]

GateValues == {Stop, Run, Wait}

----------------------------------------------------------------------------
VARIABLES
  pc,               \* position of the batch_run / run control flow
  loaded,           \* the config module as load_config returned it
  cfg,              \* the config object (check_config mutates it)
  log,              \* the logging sink: sequence of [level, msg]
  state,            \* the shared flag state.value (ControlGate)
  amp_name,         \* result of find_lsl_stream
  amp_serial,
  scans,            \* pu.search_lsl calls made: their ignore_markers argument
  now,              \* wall clock
  global_timer,     \* reference point of qc.Timer(autoreset=False)
  internal_timer,   \* reference point of qc.Timer(autoreset=True)
  tslist,           \* timestamps of the window last pulled
  last_ts,          \* local last_ts of run()
  pulled,           \* windows pulled by sr.acquire / sr.get_window
  callbacks,        \* times the per-window section (lines 138-141) ran
  exit_status,      \* process exit status, <<>> while the process lives
  stop_in_setup,    \* history: state.value was 0 at some point of run()'s setup
  stop_in_running,  \* history: 0 was written after the main section began
  entered_running,  \* history: run() reached the main section (line 119)
  gate_written,     \* history: the flag's initial value, then the last value
                    \* the controlling context wrote
  poll_value        \* history: the value the poll of line 93 left the wait on

vars == <<pc, loaded, cfg, log, state, amp_name, amp_serial, scans, now,
          global_timer, internal_timer, tslist, last_ts, pulled, callbacks,
          exit_status, stop_in_setup, stop_in_running, entered_running,
          gate_written, poll_value>>

----------------------------------------------------------------------------
(* check_config                                                            *)

\* critical_vars['COMMON']
critical_vars == <<"DATA_PATH">>

\* optional_vars, in dict order, with their defaults
optional_keys == <<"AMP_NAME", "AMP_SERIAL", "GLOBAL_TIME", "NJOBS">>

optional_vars(key) ==
  CASE key = "AMP_NAME"    -> "None"
    [] key = "AMP_SERIAL"  -> "None"
    [] key = "GLOBAL_TIME" -> DefaultGlobalTime
    [] key = "NJOBS"       -> DefaultNJobs

hasattr(c, key) == c[key] # Missing

\* mutant of set_defaults: setattr without the hasattr test
RECURSIVE set_defaults_overwrite(_, _, _)
set_defaults_overwrite(c, lg, i) ==
  IF i > Len(optional_keys) THEN [cfg |-> c, log |-> lg]
  ELSE LET key == optional_keys[i] IN
       set_defaults_overwrite(
         [c EXCEPT ![key] = Some(optional_vars(key))],
         IF ~hasattr(c, key)
         THEN Append(lg, [level |-> "WARNING", msg |-> key]) ELSE lg,
         i + 1)

\* for key in optional_vars: if not hasattr: setattr; logger.warning
RECURSIVE set_defaults(_, _, _)
set_defaults(c, lg, i) ==
  IF i > Len(optional_keys) THEN [cfg |-> c, log |-> lg]
  ELSE LET key == optional_keys[i] IN
       IF ~hasattr(c, key)
       THEN set_defaults([c EXCEPT ![key] = Some(optional_vars(key))],
                         Append(lg, [level |-> "WARNING", msg |-> key]),
                         i + 1)
       ELSE set_defaults(c, lg, i + 1)

\* for key in critical_vars['COMMON']: if not hasattr: logger.error; raise
RECURSIVE check_critical(_, _)
check_critical(c, i) ==
  IF i > Len(critical_vars) THEN Missing
  ELSE IF ~hasattr(c, critical_vars[i]) THEN Some(critical_vars[i])
       ELSE check_critical(c, i + 1)

\* check_config(cfg): [cfg, log (records appended), raised]
check_config(c) ==
  LET bad == check_critical(c, 1) IN
  IF bad # Missing
  THEN [cfg |-> c,
        log |-> <<[level |-> "ERROR", msg |-> Val(bad)]>>,
        raised |-> TRUE]
  ELSE LET r == set_defaults(c, <<>>, 1) IN
       [cfg |-> r.cfg, log |-> r.log, raised |-> FALSE]

----------------------------------------------------------------------------
(* Configurations load_config can return                                   *)
Configs ==
  [DATA_PATH   : {Missing, Some("/data")},
   AMP_NAME    : {Missing, Some("None"), Some("ampA")},
   AMP_SERIAL  : {Missing, Some("None"), Some("s1")},
   GLOBAL_TIME : {Missing} \cup {Some(g) : g \in 0..MaxGlobalTime},
   NJOBS       : {Missing, Some(2)},
   TIMER_SLEEP : {Some(t) : t \in 1..MaxTimerSleep}]

Init ==
  /\ pc = "check_config"
  /\ loaded \in Configs
  /\ cfg = loaded
  /\ log = <<>>
  /\ state \in GateValues
  /\ amp_name = "Unset"
  /\ amp_serial = "Unset"
  /\ scans = <<>>
  /\ now = 0
  /\ global_timer = Unbound
  /\ internal_timer = Unbound
  /\ tslist = <<>>
  /\ last_ts = Unbound
  /\ pulled = 0
  /\ callbacks = 0
  /\ exit_status = <<>>
  /\ stop_in_setup = FALSE
  /\ stop_in_running = FALSE
  /\ entered_running = FALSE
  /\ gate_written = state
  /\ poll_value = <<>>

----------------------------------------------------------------------------
(* Helpers of run()                                                        *)

SetupPcs == {"await", "abort_check", "find", "connect"}
RunningPcs == {"loop_head", "acquire", "check"}
BlockingPcs == {"await", "find", "connect", "acquire"}
TerminalPcs == {"config_error", "aborted", "done", "crashed"}

\* history: the flag is 0 while run() is in its setup phase
Observe ==
  stop_in_setup' = (stop_in_setup \/ (pc' \in SetupPcs /\ state' = Stop))

\* exit status the parent sees for sys.exit(n): the low 8 bits
ExitCode(n) == n % 256

\* streams a discovery scan can see on the network
StreamsOnNetwork ==
  {[name |-> "ampA", serial |-> "s1", type |-> "EEG"],
   [name |-> "ampB", serial |-> "s2", type |-> "EEG"],
   [name |-> "mk",   serial |-> "s3", type |-> "Markers"]}

\* pu.search_lsl(state, ignore_markers): the selections a scan can return
search_lsl(ignore_markers) ==
  {<<s.name, s.serial>> :
     s \in {x \in StreamsOnNetwork : ~ignore_markers \/ x.type # "Markers"}}

\* mutant of find_lsl_stream: scan as soon as one of the two is None
find_lsl_stream_or(c) ==
  IF Val(c.AMP_NAME) = "None" \/ Val(c.AMP_SERIAL) = "None"
  THEN [scan |-> <<TRUE>>, results |-> search_lsl(TRUE)]
  ELSE [scan |-> <<>>, results |-> {<<Val(c.AMP_NAME), Val(c.AMP_SERIAL)>>}]

\* find_lsl_stream(cfg, state): the search_lsl calls made (their
\* ignore_markers argument) and the possible results
find_lsl_stream(c) ==
  IF Val(c.AMP_NAME) = "None" /\ Val(c.AMP_SERIAL) = "None"
  THEN [scan |-> <<TRUE>>, results |-> search_lsl(TRUE)]
  ELSE [scan |-> <<>>, results |-> {<<Val(c.AMP_NAME), Val(c.AMP_SERIAL)>>}]

\* qc.Timer.sec() of a timer with reference point ref
timer_sec(ref) == now - Val(ref)

\* qc.Timer(autoreset=True).sleep_atleast(sec): the time at which it returns
\* (it then restarts its reference point at that time)
sleep_atleast(ref, sec) ==
  IF timer_sec(ref) < sec THEN now + (sec - timer_sec(ref)) ELSE now

\* windows sr.get_window can return: 1..MaxLen non-decreasing timestamps
Windows ==
  {w \in UNION {[1..n -> 0..MaxTs] : n \in 1..MaxLen} :
     \A i \in 1..(Len(w) - 1) : w[i] <= w[i + 1]}

\* np.where(np.array(tslist) > last_ts)[0]
tsnew(ts, last) == {i \in 1..Len(ts) : ts[i] > last}

\* mutant of loop_condition: the flag is not tested
loop_condition_no_gate ==
  timer_sec(global_timer) < Val(cfg.GLOBAL_TIME)

\* mutant of loop_condition: <= in place of <
loop_condition_le ==
  state = Run /\ timer_sec(global_timer) <= Val(cfg.GLOBAL_TIME)

\* mutant of loop_condition: only 0 stops the loop (state.value != 0)
loop_condition_not_stop ==
  state # Stop /\ timer_sec(global_timer) < Val(cfg.GLOBAL_TIME)

\* while state.value == 1 and global_timer.sec() < cfg.GLOBAL_TIME
loop_condition ==
  state = Run /\ timer_sec(global_timer) < Val(cfg.GLOBAL_TIME)

----------------------------------------------------------------------------
(* Actions                                                                 *)

\* batch_run line 166: check_config(cfg); a RuntimeError ends the process
batch_run_check_config ==
  /\ pc = "check_config"
  /\ LET r == check_config(cfg) IN
       /\ cfg' = r.cfg
       /\ log' = log \o r.log
       /\ IF r.raised
          THEN /\ pc' = "config_error"
               /\ exit_status' = Some(UncaughtStatus)
          ELSE /\ pc' = "await"
               /\ exit_status' = exit_status
  /\ UNCHANGED <<loaded, state, amp_name, amp_serial, scans, now, global_timer,
                 internal_timer, tslist, last_ts, pulled, callbacks,
                 stop_in_running, entered_running, gate_written, poll_value>>
  /\ Observe

\* the controlling context writes the flag, at any time
gate_write(v) ==
  /\ state' = v
  /\ gate_written' = v
  /\ stop_in_running' = (stop_in_running \/ (v = Stop /\ pc \in RunningPcs))
  /\ UNCHANGED <<pc, loaded, cfg, log, amp_name, amp_serial, scans, now,
                 global_timer, internal_timer, tslist, last_ts, pulled,
                 callbacks, exit_status, entered_running, poll_value>>
  /\ Observe

\* wall-clock time passes while run() busy-waits or sits in a blocking call
tick ==
  /\ pc \in BlockingPcs
  /\ now < MaxTime
  /\ now' = now + 1
  /\ UNCHANGED <<pc, loaded, cfg, log, state, amp_name, amp_serial, scans,
                 global_timer, internal_timer, tslist, last_ts, pulled,
                 callbacks, exit_status, stop_in_setup, stop_in_running,
                 entered_running, gate_written, poll_value>>

\* lines 93-94: while state.value == 2: pass
run_wait ==
  /\ pc = "await"
  /\ pc' = IF state = Wait THEN "await" ELSE "abort_check"
  /\ poll_value' = IF state = Wait THEN poll_value ELSE Some(state)
  /\ UNCHANGED <<loaded, cfg, log, state, amp_name, amp_serial, scans, now,
                 global_timer, internal_timer, tslist, last_ts, pulled,
                 callbacks, exit_status, stop_in_running, entered_running,
                 gate_written>>
  /\ Observe

\* mutant of run_abort_check: sys.exit(0)
run_abort_check_exit0 ==
  /\ pc = "abort_check"
  /\ IF state = 0
     THEN /\ pc' = "aborted"
          /\ exit_status' = Some(ExitCode(0))
     ELSE /\ pc' = "find"
          /\ exit_status' = exit_status
  /\ UNCHANGED <<loaded, cfg, log, state, amp_name, amp_serial, scans, now,
                 global_timer, internal_timer, tslist, last_ts, pulled,
                 callbacks, stop_in_running, entered_running,
                 gate_written, poll_value>>
  /\ Observe

\* lines 97-98: if not state.value: sys.exit(-1)
run_abort_check ==
  /\ pc = "abort_check"
  /\ IF state = 0
     THEN /\ pc' = "aborted"
          /\ exit_status' = Some(ExitCode(AbortArg))
     ELSE /\ pc' = "find"
          /\ exit_status' = exit_status
  /\ UNCHANGED <<loaded, cfg, log, state, amp_name, amp_serial, scans, now,
                 global_timer, internal_timer, tslist, last_ts, pulled,
                 callbacks, stop_in_running, entered_running,
                 gate_written, poll_value>>
  /\ Observe

\* line 104: amp_name, amp_serial = find_lsl_stream(cfg, state)
run_find_lsl_stream ==
  /\ pc = "find"
  /\ LET r == find_lsl_stream(cfg) IN
       /\ scans' = scans \o r.scan
       /\ \E sel \in r.results :
            /\ amp_name' = sel[1]
            /\ amp_serial' = sel[2]
  /\ pc' = "connect"
  /\ UNCHANGED <<loaded, cfg, log, state, now, global_timer, internal_timer,
                 tslist, last_ts, pulled, callbacks, exit_status,
                 stop_in_running, entered_running, gate_written, poll_value>>
  /\ Observe

\* lines 107-113: connect_lsl_stream, get_sample_rate, get_trigger_channel
run_connect_lsl_stream ==
  /\ pc = "connect"
  /\ pc' = "main"
  /\ UNCHANGED <<loaded, cfg, log, state, amp_name, amp_serial, scans, now,
                 global_timer, internal_timer, tslist, last_ts, pulled,
                 callbacks, exit_status, stop_in_running, entered_running,
                 gate_written, poll_value>>
  /\ Observe

\* lines 119-120: the two timers are constructed; the main section begins
run_start_timers ==
  /\ pc = "main"
  /\ global_timer' = Some(now)
  /\ internal_timer' = Some(now)
  /\ entered_running' = TRUE
  /\ pc' = "loop_head"
  /\ UNCHANGED <<loaded, cfg, log, state, amp_name, amp_serial, scans, now,
                 tslist, last_ts, pulled, callbacks, exit_status,
                 stop_in_running, gate_written, poll_value>>
  /\ Observe

\* mutant of run_loop_head: a failed test idles at the loop head instead of
\* leaving the loop
run_loop_head_idle ==
  /\ pc = "loop_head"
  /\ pc' = IF loop_condition THEN "acquire" ELSE "loop_head"
  /\ UNCHANGED <<loaded, cfg, log, state, amp_name, amp_serial, scans, now,
                 global_timer, internal_timer, tslist, last_ts, pulled,
                 callbacks, exit_status, stop_in_running, entered_running,
                 gate_written, poll_value>>
  /\ Observe

\* mutant of run_loop_head: a run that has returned re-enters the loop
run_loop_head_restart ==
  /\ pc \in {"loop_head", "done"}
  /\ IF loop_condition
     THEN /\ pc' = "acquire"
          /\ exit_status' = exit_status
     ELSE /\ pc' = "done"
          /\ exit_status' = Some(NormalStatus)
  /\ UNCHANGED <<loaded, cfg, log, state, amp_name, amp_serial, scans, now,
                 global_timer, internal_timer, tslist, last_ts, pulled,
                 callbacks, stop_in_running, entered_running,
                 gate_written, poll_value>>
  /\ Observe

\* mutant of run_loop_head: on leaving the loop run() puts the flag back to 0
run_loop_head_resets_flag ==
  /\ pc = "loop_head"
  /\ IF loop_condition
     THEN /\ pc' = "acquire"
          /\ exit_status' = exit_status
          /\ state' = state
     ELSE /\ pc' = "done"
          /\ exit_status' = Some(NormalStatus)
          /\ state' = Stop
  /\ UNCHANGED <<loaded, cfg, log, amp_name, amp_serial, scans, now,
                 global_timer, internal_timer, tslist, last_ts, pulled,
                 callbacks, stop_in_running, entered_running,
                 gate_written, poll_value>>
  /\ Observe

\* line 122: the while condition; when it fails run() and batch_run return
run_loop_head ==
  /\ pc = "loop_head"
  /\ IF loop_condition
     THEN /\ pc' = "acquire"
          /\ exit_status' = exit_status
     ELSE /\ pc' = "done"
          /\ exit_status' = Some(NormalStatus)
  /\ UNCHANGED <<loaded, cfg, log, state, amp_name, amp_serial, scans, now,
                 global_timer, internal_timer, tslist, last_ts, pulled,
                 callbacks, stop_in_running, entered_running,
                 gate_written, poll_value>>
  /\ Observe

\* lines 127-129: sr.acquire(); window, tslist = sr.get_window()
run_acquire ==
  /\ pc = "acquire"
  /\ \E w \in Windows : tslist' = w
  /\ pulled' = pulled + 1
  /\ pc' = "check"
  /\ UNCHANGED <<loaded, cfg, log, state, amp_name, amp_serial, scans, now,
                 global_timer, internal_timer, last_ts, callbacks,
                 exit_status, stop_in_running, entered_running,
                 gate_written, poll_value>>
  /\ Observe

\* lines 132-145: the continuity check and the rest of the iteration.
\* last_ts is a local of run() that is only assigned at line 144: reading it
\* at line 132 before that raises UnboundLocalError, which nothing catches.
run_check_window ==
  /\ pc = "check"
  /\ IF last_ts = Unbound
     THEN /\ pc' = "crashed"
          /\ exit_status' = Some(UncaughtStatus)
          /\ UNCHANGED <<log, now, internal_timer, last_ts, callbacks>>
     ELSE IF tsnew(tslist, Val(last_ts)) = {}
     THEN \* lines 133-136: warning, time.sleep(1), continue
          /\ log' = Append(log, [level |-> "WARNING", msg |-> "delay"])
          /\ now' = now + StaleBackoff
          /\ now' <= MaxTime
          /\ pc' = "loop_head"
          /\ UNCHANGED <<internal_timer, last_ts, callbacks, exit_status>>
     ELSE \* lines 138-145: per-window section, last_ts, pacing
          /\ callbacks' = callbacks + 1
          /\ last_ts' = Some(tslist[Len(tslist)])
          /\ now' = sleep_atleast(internal_timer, Val(cfg.TIMER_SLEEP))
          /\ now' <= MaxTime
          /\ internal_timer' = Some(now')
          /\ pc' = "loop_head"
          /\ UNCHANGED <<log, exit_status>>
  /\ UNCHANGED <<loaded, cfg, state, amp_name, amp_serial, scans,
                 global_timer, tslist, pulled, stop_in_running,
                 entered_running, gate_written, poll_value>>
  /\ Observe

Next ==
  \/ batch_run_check_config
  \/ \E v \in GateValues : gate_write(v)
  \/ tick
  \/ run_wait
  \/ run_abort_check
  \/ run_find_lsl_stream
  \/ run_connect_lsl_stream
  \/ run_start_timers
  \/ run_loop_head
  \/ run_acquire
  \/ run_check_window

Spec == Init /\ [][Next]_vars

\* the steps of the process that executes batch_run / run
run_step ==
  \/ batch_run_check_config
  \/ run_wait
  \/ run_abort_check
  \/ run_find_lsl_stream
  \/ run_connect_lsl_stream
  \/ run_start_timers
  \/ run_loop_head
  \/ run_acquire
  \/ run_check_window

\* runs with a valid configuration; NJOBS and AMP_SERIAL, which the loop of
\* run() never reads, are left to check_config's defaults
FairInit ==
  /\ Init
  /\ loaded.DATA_PATH # Missing
  /\ loaded.NJOBS = Missing
  /\ loaded.AMP_SERIAL = Missing

\* the process keeps executing: a statement that can be executed is executed,
\* and the blocking calls (stream lookup, connection, sr.acquire) return
FairSpec == FairInit /\ [][Next]_vars /\ WF_vars(run_step)

----------------------------------------------------------------------------
(* Properties                                                              *)

SomeStatus(n) == exit_status = Some(n)
Terminated == pc \in TerminalPcs
Elapsed == now - Val(global_timer)
WarningsFor(msg) ==
  Cardinality({i \in DOMAIN log : log[i].level = "WARNING" /\ log[i].msg = msg})
AfterFindPcs == {"connect", "main", "loop_head", "acquire", "check", "done",
                 "crashed"}

\* C1, as stated: once 0 (Stop) has been written while run() is in its main
\* section, the loop starts no further acquisition, even when the 0 is
\* overwritten by 1 or 2 before the loop reads the flag again.
C1_NoStopWriteUnobserved ==
  [][stop_in_running => ~(pc = "loop_head" /\ pc' = "acquire")]_vars

\* C1, amended: when the flag holds 0 at the moment the loop reads it at the
\* top of an iteration, the loop ends there: no window is pulled and the
\* process completes normally.
C1_StopAtGateReadTerminates ==
  [][(pc = "loop_head" /\ state = Stop /\ pc' # pc)
       => (pc' = "done" /\ pulled' = pulled /\ exit_status' = Some(0))]_vars

\* C1 witness: the loop has ended on a 0 written during the main section.
C1_Witness == pc = "done" /\ stop_in_running /\ state = Stop

\* C2, as stated: if the flag is 0 at any point of the setup (poll, abort
\* check, stream lookup, connection), the exit status is non-zero and the
\* per-window section never runs.
C2_StopInSetupExitsNonZero ==
  stop_in_setup => (callbacks = 0 /\ (Terminated => ~SomeStatus(0)))

\* C2, amended: if the abort check of line 97 reads 0, run() exits there with
\* a non-zero status, and a run that ended so has pulled no window and run no
\* per-window section.
C2_AbortCheckStopExitsNonZero ==
  /\ [][(pc = "abort_check" /\ state = Stop /\ pc' # pc)
          => pc' = "aborted"]_vars
  /\ [](pc = "aborted"
          => (exit_status # <<>> /\ ~SomeStatus(0)
              /\ pulled = 0 /\ callbacks = 0))

\* C2 witness: the run was aborted at the abort check.
C2_Witness == pc = "aborted" /\ stop_in_setup /\ state = Stop

\* C3, as stated: the continuity check of a pulled window logs exactly one
\* delay warning and skips the per-window section when no timestamp exceeds
\* last_ts, and runs the per-window section without a warning otherwise.
C3_WarnOrCallbackPerWindow ==
  [][(pc = "check" /\ pc' # pc)
       => IF last_ts # Unbound /\ tsnew(tslist, Val(last_ts)) = {}
          THEN /\ WarningsFor("delay")' = WarningsFor("delay") + 1
               /\ callbacks' = callbacks
          ELSE /\ callbacks' = callbacks + 1
               /\ WarningsFor("delay")' = WarningsFor("delay")]_vars

C7_ExitStatusZeroIffRan ==
  pc \in {"aborted", "done", "crashed"}
    => (SomeStatus(0) <=> entered_running)

\* C8: check_config raises iff DATA_PATH is missing and then leaves the
\* configuration alone; otherwise every missing optional field gets its
\* default (None, None, 60, 1) with one warning, every present field keeps
\* its value without a warning, and a second call changes nothing.
C8_CheckConfig ==
  pc # "check_config" =>
    /\ (pc = "config_error") <=> (loaded.DATA_PATH = Missing)
    /\ loaded.DATA_PATH = Missing =>
         /\ cfg = loaded
         /\ log = <<[level |-> "ERROR", msg |-> "DATA_PATH"]>>
    /\ loaded.DATA_PATH # Missing =>
         /\ cfg.DATA_PATH = loaded.DATA_PATH
         /\ cfg.TIMER_SLEEP = loaded.TIMER_SLEEP
         /\ \A key \in {"AMP_NAME", "AMP_SERIAL", "GLOBAL_TIME", "NJOBS"} :
              IF loaded[key] = Missing
              THEN /\ WarningsFor(key) = 1
                   /\ cfg[key] = CASE key = "AMP_NAME"    -> Some("None")
                                   [] key = "AMP_SERIAL"  -> Some("None")
                                   [] key = "GLOBAL_TIME" -> Some(60)
                                   [] key = "NJOBS"       -> Some(1)
              ELSE /\ WarningsFor(key) = 0
                   /\ cfg[key] = loaded[key]
         /\ check_config(cfg) = [cfg |-> cfg, log |-> <<>>, raised |-> FALSE]

\* C8 witness: check_config has defaulted GLOBAL_TIME and kept NJOBS.
C8_Witness ==
  /\ pc = "await"
  /\ loaded.GLOBAL_TIME = Missing /\ cfg.GLOBAL_TIME = Some(60)
  /\ loaded.NJOBS = Some(2) /\ cfg.NJOBS = Some(2)

\* C9, as stated: no scan and the configured pair when both name and serial
\* are supplied; a marker-ignoring scan and its selection in every other case.
C9_ScanUnlessBothSupplied ==
  pc \in AfterFindPcs =>
    IF cfg.AMP_NAME # Some("None") /\ cfg.AMP_SERIAL # Some("None")
    THEN /\ scans = <<>>
         /\ <<amp_name, amp_serial>> = <<Val(cfg.AMP_NAME), Val(cfg.AMP_SERIAL)>>
    ELSE /\ scans = <<TRUE>>
         /\ <<amp_name, amp_serial>> \in search_lsl(TRUE)

\* C9, amended: no scan and the configured pair (a None included) when the
\* configuration supplies at least one of name and serial; one scan with
\* ignore_markers set, and its selection, only when both are None.
C9_ScanOnlyIfBothNone ==
  pc \in AfterFindPcs =>
    IF cfg.AMP_NAME # Some("None") \/ cfg.AMP_SERIAL # Some("None")
    THEN /\ scans = <<>>
         /\ <<amp_name, amp_serial>> = <<Val(cfg.AMP_NAME), Val(cfg.AMP_SERIAL)>>
    ELSE /\ scans = <<TRUE>>
         /\ <<amp_name, amp_serial>> \in search_lsl(TRUE)

\* C9 witness: only the name is configured and no scan was made.
C9_Witness ==
  /\ pc = "connect"
  /\ cfg.AMP_NAME = Some("ampA") /\ cfg.AMP_SERIAL = Some("None")
  /\ scans = <<>> /\ amp_name = "ampA" /\ amp_serial = "None"

\* C10, as stated: last_ts holds a value when the continuity check of the
\* first iteration reads it, and that check ends without an error.
C10_LastTsInitialised ==
  /\ pc = "check" => last_ts # Unbound
  /\ pc # "crashed"

\* C11, as stated: the loop is left only on a flag read of 0 or on the
\* deadline; a read of 1 or 2 before the deadline never ends the loop.
C11_LoopEndsOnlyOnStopOrDeadline ==
  [][(pc \in RunningPcs /\ pc' = "done")
       => (pc = "loop_head"
           /\ (state = Stop \/ Elapsed >= Val(cfg.GLOBAL_TIME)))]_vars

\* C11, amended: the while test of line 122 ends the loop exactly when the
\* flag read is not 1 (it is 0 or 2) or the deadline is reached; a read of 1
\* before the deadline starts the next acquisition; and the loop is left
\* normally nowhere else.
C11_LoopTestEndsUnlessRun ==
  /\ [][(pc = "loop_head" /\ pc' # pc)
          => IF state = Run /\ Elapsed < Val(cfg.GLOBAL_TIME)
             THEN pc' = "acquire" /\ exit_status' = exit_status
             ELSE pc' = "done" /\ exit_status' = Some(0)]_vars
  /\ [][(pc \in RunningPcs /\ pc' = "done") => pc = "loop_head"]_vars

\* C11 witness: the loop ended before the deadline on a flag that was never 0
\* in the main section and holds 2.
C11_Witness ==
  /\ pc = "done" /\ state = Wait /\ ~stop_in_running
  /\ Elapsed < Val(cfg.GLOBAL_TIME)

\* C12, as stated: run() stays in the wait while the flag is 2, enters the
\* stream setup only with the flag at 1, and aborts whenever the value on
\* which the poll left the wait is 0.
C12_LeavesWaitOnlyOnRun ==
  /\ [][(pc = "await" /\ state = Wait) => pc' = "await"]_vars
  /\ [][(pc # "find" /\ pc' = "find") => state = Run]_vars
  /\ [](poll_value = Some(Stop) => pc \in {"abort_check", "aborted"})

C16_TerminatedAbsorbing ==
  [][Terminated => /\ pc' = pc
                   /\ pulled' = pulled
                   /\ callbacks' = callbacks
                   /\ exit_status' = exit_status]_vars

\* C16 witness: run() has left the loop on a flag other than 1 with the
\* deadline not reached, and the controlling context has since written 1.
C16_Witness ==
  /\ pc = "done"
  /\ state = Run
  /\ Elapsed < Val(cfg.GLOBAL_TIME)
  /\ pulled = 0

\* C17: run() never writes the flag: its value is always the initial value or
\* the last value the controlling context wrote.
C17_GateOnlyWrittenByController == state = gate_written

\* C17 witness: the flag was written while run() was in its loop and again
\* after run() ended, and holds the last value written.
C17_Witness ==
  /\ pc = "crashed"
  /\ stop_in_running
  /\ state = Wait
  /\ gate_written = Wait

====
